---------------------------- MODULE Spec2Model ----------------------------
(***************************************************************************)
(* String-case helpers: camelCase, dotCase and toKebabCase                 *)
(* (src/unnamed/part_000) and the simplified toKebabCase                   *)
(* (src/chain_prompt.js).                                                  *)
(*                                                                         *)
(* A JavaScript string is a sequence of code units; a code unit is a       *)
(* one-character TLA+ string, except U+212A KELVIN SIGN, written Kelvin.   *)
(* A JavaScript value is a record [kind, chars, truthy]: chars is the text *)
(* of a string and <<>> for every other kind.                              *)
(***************************************************************************)
EXTENDS Naturals, Sequences, FiniteSets

\* Longest input text drawn by Init.
MaxLen == 4

------------------------------------------------------------------------------
(* Characters and character classes of the regular expressions *)

\* U+212A KELVIN SIGN: not in [a-zA-Z0-9]; String.prototype.toLowerCase maps
\* it to "k" (Unicode simple lowercase mapping 212A -> 006B).
Kelvin == "KELVIN"

LowerSeq == << "a", "b", "c", "d", "e", "f", "g", "h", "i", "j", "k", "l", "m",
               "n", "o", "p", "q", "r", "s", "t", "u", "v", "w", "x", "y", "z" >>
UpperSeq == << "A", "B", "C", "D", "E", "F", "G", "H", "I", "J", "K", "L", "M",
               "N", "O", "P", "Q", "R", "S", "T", "U", "V", "W", "X", "Y", "Z" >>

\* [a-z]
LowerAZ == { LowerSeq[i] : i \in 1..26 }
\* [A-Z]
UpperAZ == { UpperSeq[i] : i \in 1..26 }
\* [0-9]
Digit09 == { "0", "1", "2", "3", "4", "5", "6", "7", "8", "9" }
\* \s (the members that the inputs use)
WhiteSpace == { " " }

\* The code units the input texts are drawn from: a lowercase letter, an
\* uppercase letter, a digit, white space, underscore, the two separators the
\* functions write, and a non-ASCII letter whose lowercase form is ASCII.
Alphabet == { "a", "B", "1", " ", "_", ".", "-", Kelvin }

\* [a-z0-9]
IsLowerOrDigit(c) == c \in LowerAZ \cup Digit09
\* [A-Z]
IsUpper(c) == c \in UpperAZ
\* [a-zA-Z0-9]
IsAlnum(c) == c \in LowerAZ \cup UpperAZ \cup Digit09

UpperToLower == [ c \in UpperAZ |-> LowerSeq[CHOOSE i \in 1..26 : UpperSeq[i] = c] ]
LowerToUpper == [ c \in LowerAZ |-> UpperSeq[CHOOSE i \in 1..26 : LowerSeq[i] = c] ]

\* One code unit of String.prototype.toLowerCase.
LowerChar(c) ==
    IF c \in UpperAZ THEN UpperToLower[c]
    ELSE IF c = Kelvin THEN "k"
    ELSE c

\* One code unit of String.prototype.toUpperCase.
UpperChar(c) == IF c \in LowerAZ THEN LowerToUpper[c] ELSE c

\* s.toLowerCase()
ToLowerCase(s) == [ i \in 1..Len(s) |-> LowerChar(s[i]) ]
\* s.toUpperCase()
ToUpperCase(s) == [ i \in 1..Len(s) |-> UpperChar(s[i]) ]

------------------------------------------------------------------------------
(* JavaScript values *)

Str(s)     == [kind |-> "string",    chars |-> s,    truthy |-> Len(s) > 0]
Undefined  == [kind |-> "undefined", chars |-> <<>>, truthy |-> FALSE]
Null       == [kind |-> "null",      chars |-> <<>>, truthy |-> FALSE]
Zero       == [kind |-> "number",    chars |-> <<>>, truthy |-> FALSE]
FortyTwo   == [kind |-> "number",    chars |-> <<>>, truthy |-> TRUE]
False      == [kind |-> "boolean",   chars |-> <<>>, truthy |-> FALSE]
True       == [kind |-> "boolean",   chars |-> <<>>, truthy |-> TRUE]
Array      == [kind |-> "array",     chars |-> <<>>, truthy |-> TRUE]
Object     == [kind |-> "object",    chars |-> <<>>, truthy |-> TRUE]

NonText == { Undefined, Null, Zero, FortyTwo, False, True, Array, Object }
Texts   == UNION { [1..n -> Alphabet] : n \in 0..MaxLen }
Values  == NonText \cup { Str(s) : s \in Texts }

\* typeof v
TypeOf(v) ==
    CASE v.kind \in {"null", "array", "object"} -> "object"
      [] OTHER -> v.kind

------------------------------------------------------------------------------
(* Array and string helpers of the JavaScript runtime *)

\* Variant: the array left unfiltered.
FilterBoolean_keepAll(ws) == ws

\* words.filter(Boolean): the empty string is the only falsy string.
FilterBoolean(ws) == SelectSeq(ws, LAMBDA w : Len(w) > 0)

\* words.join(sep)
RECURSIVE Join(_, _)
Join(ws, sep) ==
    IF Len(ws) = 0 THEN <<>>
    ELSE IF Len(ws) = 1 THEN ws[1]
    ELSE ws[1] \o sep \o Join(Tail(ws), sep)

\* Whether code unit c is in the character class (or alternation of classes)
\* that a regular expression of the source repeats with +.
InClass(cls, c) ==
    CASE cls = "[^a-zA-Z0-9]"        -> ~IsAlnum(c)
      [] cls = "[^a-zA-Z0-9]|[\\s_]" -> ~IsAlnum(c) \/ c \in WhiteSpace \/ c = "_"
      [] cls = "[^a-z0-9]i"          -> ~IsAlnum(c)
      [] cls = "\\s"                 -> c \in WhiteSpace
      [] cls = "[a-z0-9]"            -> IsLowerOrDigit(c)

\* The index after the run, starting at i, of code units of the class cls.
RECURSIVE RunEnd(_, _, _)
RunEnd(s, i, cls) ==
    IF i <= Len(s) /\ InClass(cls, s[i]) THEN RunEnd(s, i + 1, cls) ELSE i

\* s.split(/C+/) for a character class C named cls: the pieces between
\* the maximal runs of C, the empty pieces at either end included.
RECURSIVE SplitFrom(_, _, _, _, _)
SplitFrom(s, i, cur, acc, cls) ==
    IF i > Len(s) THEN Append(acc, cur)
    ELSE IF InClass(cls, s[i])
         THEN SplitFrom(s, RunEnd(s, i, cls), <<>>, Append(acc, cur), cls)
         ELSE SplitFrom(s, i + 1, Append(cur, s[i]), acc, cls)

Split(s, cls) == SplitFrom(s, 1, <<>>, <<>>, cls)

\* s.replace(/C+/g, by) for a character class C named cls.
RECURSIVE ReplaceRuns(_, _, _)
ReplaceRuns(s, cls, by) ==
    IF Len(s) = 0 THEN <<>>
    ELSE IF InClass(cls, s[1])
         THEN by \o ReplaceRuns(SubSeq(s, RunEnd(s, 1, cls), Len(s)), cls, by)
         ELSE <<s[1]>> \o ReplaceRuns(Tail(s), cls, by)

\* s.trim()
RECURSIVE TrimStart(_)
TrimStart(s) ==
    IF Len(s) > 0 /\ s[1] \in WhiteSpace THEN TrimStart(Tail(s)) ELSE s
RECURSIVE TrimEnd(_)
TrimEnd(s) ==
    IF Len(s) > 0 /\ s[Len(s)] \in WhiteSpace
    THEN TrimEnd(SubSeq(s, 1, Len(s) - 1)) ELSE s
Trim(s) == TrimEnd(TrimStart(s))

------------------------------------------------------------------------------
(* The two boundary-inserting replacements of dotCase and toKebabCase *)

\* Variant pattern: /([a-z0-9])([A-Z])/i, the classes read without case.
CamelMatch_ignoreCase(c1, c2) ==
    IsAlnum(c1) /\ c2 \in LowerAZ \cup UpperAZ

\* Variant pattern: /([a-z])([A-Z])/, the digits left out of group 1.
CamelMatch_lettersOnly(c1, c2) == c1 \in LowerAZ /\ IsUpper(c2)

\* /([a-z0-9])([A-Z])/ matched at the two code units c1 c2.
CamelMatch(c1, c2) == IsLowerOrDigit(c1) /\ IsUpper(c2)

\* s.replace(/([a-z0-9])([A-Z])/g, '$1 $2'): the matches are taken left to
\* right and do not overlap.
RECURSIVE CamelToSpace(_)
CamelToSpace(s) ==
    IF Len(s) < 2 THEN s
    ELSE IF CamelMatch(s[1], s[2])
         THEN <<s[1], " ", s[2]>> \o CamelToSpace(SubSeq(s, 3, Len(s)))
         ELSE <<s[1]>> \o CamelToSpace(Tail(s))

\* Variant pattern: /([A-Z]{2,})([A-Z][a-z0-9]+)/, group 1 of two or more.
AcronymGroup1_twoOrMore(s) ==
    { k \in 2..Len(s) :
        /\ \A j \in 1..k : IsUpper(s[j])
        /\ k + 2 <= Len(s)
        /\ IsUpper(s[k + 1])
        /\ IsLowerOrDigit(s[k + 2]) }

\* /([A-Z]+)([A-Z][a-z0-9]+)/ matched at the start of s: the lengths k of
\* group 1 for which the rest of the pattern matches.  [A-Z]+ is greedy, so
\* the match takes the largest.
AcronymGroup1(s) ==
    { k \in 1..Len(s) :
        /\ \A j \in 1..k : IsUpper(s[j])
        /\ k + 2 <= Len(s)
        /\ IsUpper(s[k + 1])
        /\ IsLowerOrDigit(s[k + 2]) }

\* s.replace(/([A-Z]+)([A-Z][a-z0-9]+)/g, '$1 $2')
RECURSIVE AcronymToSpace(_)
AcronymToSpace(s) ==
    IF Len(s) = 0 THEN <<>>
    ELSE IF AcronymGroup1(s) = {}
         THEN <<s[1]>> \o AcronymToSpace(Tail(s))
         ELSE LET k == CHOOSE x \in AcronymGroup1(s) :
                           \A y \in AcronymGroup1(s) : y <= x
                  e == RunEnd(s, k + 2, "[a-z0-9]")
              IN  SubSeq(s, 1, k) \o <<" ">> \o SubSeq(s, k + 1, e - 1)
                      \o AcronymToSpace(SubSeq(s, e, Len(s)))

------------------------------------------------------------------------------
(* The outcome of a call: a returned text or a thrown Error, with the values *)
(* the call computed on the way (words; the text after each replacement).    *)

Returned(text, ws, s1, s2) ==
    [status |-> "returned", value |-> text, message |-> "",
     tokenized |-> TRUE, words |-> ws, camelSpaced |-> s1, acronymSpaced |-> s2]

ReturnedEarly ==
    [status |-> "returned", value |-> <<>>, message |-> "",
     tokenized |-> FALSE, words |-> <<>>, camelSpaced |-> <<>>, acronymSpaced |-> <<>>]

Thrown(msg) ==
    [status |-> "thrown", value |-> <<>>, message |-> msg,
     tokenized |-> FALSE, words |-> <<>>, camelSpaced |-> <<>>, acronymSpaced |-> <<>>]

\* Variant guard: input === undefined alone.
IsAbsent_undefinedOnly(v) == v.kind = "undefined"

\* Variant guard: !input, true of every falsy value.
IsAbsent_falsy(v) == ~v.truthy

\* input === undefined || input === null
IsAbsent(v) == v.kind \in {"undefined", "null"}

\* The guard that opens camelCase, dotCase and toKebabCase of part_000.
Validate(v) ==
    IF IsAbsent(v) THEN "empty"
    ELSE IF TypeOf(v) # "string" THEN "throw"
    ELSE "ok"

\* Variant guard: the guard of part_000 copied into chain_prompt.js.
ValidateSimple_absentExempt(v) == Validate(v)

\* The guard that opens toKebabCase of chain_prompt.js.
ValidateSimple(v) == IF TypeOf(v) # "string" THEN "throw" ELSE "ok"

------------------------------------------------------------------------------
(* camelCase *)

\* input.split(/[^a-zA-Z0-9]+/).filter(Boolean)
CamelWords(s) == FilterBoolean(Split(s, "[^a-zA-Z0-9]"))

\* Variant callback: no word is kept as an acronym.
CamelWord_noAcronym(word, idx) ==
    IF idx = 0 THEN ToLowerCase(word)
    ELSE <<UpperChar(word[1])>> \o ToLowerCase(Tail(word))

\* The callback of words.map, idx counted from 0.
CamelWord(word, idx) ==
    IF word = ToUpperCase(word)
    THEN IF idx = 0 THEN ToLowerCase(word) ELSE word
    ELSE IF idx = 0 THEN ToLowerCase(word)
    ELSE <<UpperChar(word[1])>> \o ToLowerCase(Tail(word))

\* camelCase on a text.
CamelCaseText(s) ==
    LET ws == CamelWords(s)
    IN  IF Len(ws) = 0 THEN <<>>
        ELSE Join([i \in 1..Len(ws) |-> CamelWord(ws[i], i - 1)], <<>>)

camelCase(v) ==
    CASE Validate(v) = "empty" -> ReturnedEarly
      [] Validate(v) = "throw" -> Thrown("Input must be a string, undefined, or null.")
      [] OTHER -> Returned(CamelCaseText(v.chars), CamelWords(v.chars), <<>>, <<>>)

------------------------------------------------------------------------------
(* dotCase *)

DotWords(s) ==
    FilterBoolean(Split(AcronymToSpace(CamelToSpace(s)), "[^a-zA-Z0-9]|[\\s_]"))

\* words.map(w => w.toLowerCase()).join('.')
DotJoin(ws) == Join([i \in 1..Len(ws) |-> ToLowerCase(ws[i])], <<".">>)

\* dotCase on a text.
DotCaseText(s) == DotJoin(DotWords(s))

dotCase(v) ==
    CASE Validate(v) = "empty" -> ReturnedEarly
      [] Validate(v) = "throw" -> Thrown("Input must be a string, undefined, or null.")
      [] OTHER -> Returned(DotCaseText(v.chars), DotWords(v.chars),
                           CamelToSpace(v.chars), AcronymToSpace(CamelToSpace(v.chars)))

------------------------------------------------------------------------------
(* toKebabCase of part_000 (delimiter-aware) *)

\* Variant: the acronym replacement left out of toKebabCase.
KebabWords_noAcronym(s) ==
    FilterBoolean(Split(CamelToSpace(s), "[^a-zA-Z0-9]|[\\s_]"))

KebabWords(s) ==
    FilterBoolean(Split(AcronymToSpace(CamelToSpace(s)), "[^a-zA-Z0-9]|[\\s_]"))

\* words.map(w => w.toLowerCase()).join('-')
KebabJoin(ws) == Join([i \in 1..Len(ws) |-> ToLowerCase(ws[i])], <<"-">>)

\* toKebabCase on a text.
KebabCaseText(s) == KebabJoin(KebabWords(s))

toKebabCase(v) ==
    CASE Validate(v) = "empty" -> ReturnedEarly
      [] Validate(v) = "throw" -> Thrown("Input must be a string, undefined, or null.")
      [] OTHER -> Returned(KebabCaseText(v.chars), KebabWords(v.chars),
                           CamelToSpace(v.chars), AcronymToSpace(CamelToSpace(v.chars)))

------------------------------------------------------------------------------
(* toKebabCase of chain_prompt.js (simplified) *)

\* Variant: the simplified operation merged with the delimiter-aware one.
SimpleKebabText_camelAware(s) == KebabCaseText(s)

\* The chain trim, toLowerCase, replace, trim, replace on a text.
SimpleKebabText(s) ==
    ReplaceRuns(
        Trim(ReplaceRuns(ToLowerCase(Trim(s)), "[^a-z0-9]i", <<" ">>)),
        "\\s", <<"-">>)

\* The chain makes no array of words.
toKebabCaseSimple(v) ==
    CASE ValidateSimple(v) = "throw" -> Thrown("Invalid Input: expected a string.")
      [] ValidateSimple(v) = "empty" -> ReturnedEarly
      [] OTHER -> Returned(SimpleKebabText(v.chars), <<>>, <<>>, <<>>)

------------------------------------------------------------------------------
(* The state: one call of one of the four functions on one argument *)

VARIABLES
    input,          \* the argument
    op,             \* the function called, "none" before the call
    status,         \* "pending", "returned" or "thrown"
    result,         \* the returned text
    error,          \* the message of the thrown Error
    tokenized,      \* whether the call went past its guard
    words,          \* the array of words the call made
    camelSpaced,    \* the text after the first replace of dotCase/toKebabCase
    acronymSpaced   \* the text after their second replace

vars == << input, op, status, result, error, tokenized, words,
           camelSpaced, acronymSpaced >>

Init ==
    /\ input \in Values
    /\ op = "none"
    /\ status = "pending"
    /\ result = <<>>
    /\ error = ""
    /\ tokenized = FALSE
    /\ words = <<>>
    /\ camelSpaced = <<>>
    /\ acronymSpaced = <<>>

Finish(name, o) ==
    /\ op' = name
    /\ status' = o.status
    /\ result' = o.value
    /\ error' = o.message
    /\ tokenized' = o.tokenized
    /\ words' = o.words
    /\ camelSpaced' = o.camelSpaced
    /\ acronymSpaced' = o.acronymSpaced
    /\ UNCHANGED input

CallCamelCase == status = "pending" /\ Finish("camelCase", camelCase(input))

CallDotCase == status = "pending" /\ Finish("dotCase", dotCase(input))

CallToKebabCase == status = "pending" /\ Finish("toKebabCase", toKebabCase(input))

CallToKebabCaseSimple ==
    status = "pending" /\ Finish("toKebabCaseSimple", toKebabCaseSimple(input))

Next ==
    \/ CallCamelCase
    \/ CallDotCase
    \/ CallToKebabCase
    \/ CallToKebabCaseSimple

Spec == Init /\ [][Next]_vars

------------------------------------------------------------------------------
(* Vocabulary of the properties *)

Done == status # "pending"
IsText == input.kind = "string"
GuardedOps == {"camelCase", "dotCase", "toKebabCase"}
DelimiterOps == {"dotCase", "toKebabCase"}

\* The separator an operation writes between words.
SepOf(name) == IF name = "dotCase" THEN "." ELSE "-"

\* The text d without its separators.
DeleteSep(d, sep) == SelectSeq(d, LAMBDA c : c # sep)

\* The text d has a separator right after its r-th non-separator character.
SepAfter(d, sep, r) ==
    \E k \in 1..Len(d) :
        d[k] = sep /\ Cardinality({ j \in 1..(k - 1) : d[j] # sep }) = r

\* How many of the first i characters of s are in [a-zA-Z0-9].
AlnumRank(s, i) == Cardinality({ j \in 1..i : IsAlnum(s[j]) })

\* The characters of s that are in [a-zA-Z0-9], in order.
AlnumOf(s) == SelectSeq(s, IsAlnum)

\* The text d with every character from replaced by to.
Subst(d, from, to) == [ i \in 1..Len(d) |-> IF d[i] = from THEN to ELSE d[i] ]

\* A lowercase-or-digit character at i immediately followed by an uppercase one.
CamelBoundaryAt(s, i) ==
    i + 1 <= Len(s) /\ IsLowerOrDigit(s[i]) /\ IsUpper(s[i + 1])

------------------------------------------------------------------------------
\* C1: camelCase, dotCase and the delimiter-aware toKebabCase called with
\* null or undefined return the empty string, and do so before any
\* tokenization (no replacement is made and no word array is built).
C1_AbsentReturnsEmpty ==
    (Done /\ op \in GuardedOps /\ input \in {Null, Undefined}) =>
        /\ status = "returned"
        /\ result = <<>>
        /\ error = ""
        /\ ~tokenized
        /\ words = <<>> /\ camelSpaced = <<>> /\ acronymSpaced = <<>>

C1_Witness ==
    Done /\ op = "dotCase" /\ input = Null /\ status = "returned" /\ ~tokenized

\* C2: an argument that is neither text nor null/undefined makes each of the
\* four operations throw, return no text and tokenize nothing.
C2_NonTextThrows ==
    (Done /\ input.kind \notin {"string", "undefined", "null"}) =>
        /\ status = "thrown"
        /\ error # ""
        /\ result = <<>>
        /\ ~tokenized
        /\ words = <<>> /\ camelSpaced = <<>> /\ acronymSpaced = <<>>

C2_Witness ==
    Done /\ op = "camelCase" /\ input = Zero /\ status = "thrown"

\* C3: the simplified toKebabCase throws on null and undefined, where the
\* delimiter-aware toKebabCase returns the empty string.
C3_SimpleRejectsAbsent ==
    (Done /\ input \in {Null, Undefined}) =>
        /\ op = "toKebabCaseSimple" =>
              status = "thrown" /\ error = "Invalid Input: expected a string."
        /\ op = "toKebabCase" => status = "returned" /\ result = <<>>

C3_Witness ==
    Done /\ op = "toKebabCaseSimple" /\ input = Undefined /\ status = "thrown"

\* C4: dotCase and the delimiter-aware toKebabCase are idempotent: applied to
\* its own output, each returns that output.
C4_Idempotent ==
    (Done /\ IsText) =>
        /\ op = "dotCase" =>
              /\ dotCase(Str(result)).status = "returned"
              /\ dotCase(Str(result)).value = result
        /\ op = "toKebabCase" =>
              /\ toKebabCase(Str(result)).status = "returned"
              /\ toKebabCase(Str(result)).value = result

C4_Witness ==
    /\ Done /\ op = "dotCase"
    /\ input.chars = <<"a", "B", "_", "1">>
    /\ result = <<"a", ".", "b", ".", "1">>

------------------------------------------------------------------------------
(* C5: camelCase against a description of its words by position *)

\* Where a maximal run of [a-zA-Z0-9] starts in s.
RunStarts(s) ==
    { i \in 1..Len(s) : IsAlnum(s[i]) /\ (i = 1 \/ ~IsAlnum(s[i - 1])) }

\* The maximal run of [a-zA-Z0-9] of s that starts at i.
RunAt(s, i) ==
    LET j == CHOOSE e \in i..Len(s) :
                 /\ \A k \in i..e : IsAlnum(s[k])
                 /\ (e = Len(s) \/ ~IsAlnum(s[e + 1]))
    IN  SubSeq(s, i, j)

\* The transform the claim gives for a word.
ClaimedCamelWord(w, first) ==
    IF first THEN [ k \in 1..Len(w) |-> LowerChar(w[k]) ]
    ELSE IF \A k \in 1..Len(w) : w[k] \notin LowerAZ THEN w
    ELSE [ k \in 1..Len(w) |-> IF k = 1 THEN UpperChar(w[k]) ELSE LowerChar(w[k]) ]

\* The transformed runs that start in the set starts, concatenated in order.
RECURSIVE ClaimedCamel(_, _, _)
ClaimedCamel(s, starts, first) ==
    IF starts = {} THEN <<>>
    ELSE LET i == CHOOSE x \in starts : \A y \in starts : x <= y
         IN  ClaimedCamelWord(RunAt(s, i), first)
                 \o ClaimedCamel(s, starts \ {i}, FALSE)

\* C5: for a text input camelCase returns the transformed maximal runs of
\* alphanumeric characters, concatenated in order with no separator: word 0
\* lowercased, a later word equal to its uppercase form verbatim, any other
\* later word capitalized; no alphanumeric character gives the empty string.
C5_CamelCaseWords ==
    (Done /\ op = "camelCase" /\ IsText) =>
        /\ status = "returned"
        /\ result = ClaimedCamel(input.chars, RunStarts(input.chars), TRUE)
        /\ Len(words) = Cardinality(RunStarts(input.chars))
        /\ (AlnumOf(input.chars) = <<>> => result = <<>>)

C5_Witness ==
    /\ Done /\ op = "camelCase"
    /\ input.chars = <<"B", "_", "a", "B">>
    /\ result = <<"b", "A", "b">>

------------------------------------------------------------------------------
\* C6: on an input of letters and digits only ([a-zA-Z0-9]) the simplified
\* toKebabCase returns the input lowercased, with no hyphen; where such an
\* input has a lowercase letter or digit followed by an uppercase letter, the
\* delimiter-aware toKebabCase returns a different text, with a hyphen
\* between those two characters.
C6_SimpleNeverSplitsCamel ==
    (Done /\ op = "toKebabCaseSimple" /\ IsText
          /\ \A i \in 1..Len(input.chars) : IsAlnum(input.chars[i])) =>
        /\ status = "returned"
        /\ result = [ i \in 1..Len(input.chars) |->
                        IF input.chars[i] \in UpperAZ
                        THEN UpperToLower[input.chars[i]] ELSE input.chars[i] ]
        /\ \A k \in 1..Len(result) : result[k] # "-"
        /\ \A i \in 1..Len(input.chars) :
              CamelBoundaryAt(input.chars, i) =>
                  /\ toKebabCase(input).value # result
                  /\ SepAfter(toKebabCase(input).value, "-", i)

C6_Witness ==
    /\ Done /\ op = "toKebabCaseSimple"
    /\ input.chars = <<"a", "B", "1", "B">>
    /\ result = <<"a", "b", "1", "b">>
    /\ toKebabCase(input).value = <<"a", "-", "b", "1", "-", "b">>

------------------------------------------------------------------------------
(* C7: the second replacement, read off the texts before and after it *)

\* The positions of t in front of which t2 has one more space than t, t2
\* being t with spaces inserted; j counts the characters of t already passed.
RECURSIVE InsertedFrom(_, _, _)
InsertedFrom(t, t2, j) ==
    IF Len(t) = 0 \/ Len(t2) = 0 THEN {}
    ELSE IF t2[1] = t[1] THEN InsertedFrom(Tail(t), Tail(t2), j + 1)
    ELSE {j + 1} \cup InsertedFrom(t, Tail(t2), j)

\* The positions of camelSpaced where the second replacement put a space.
AcronymCuts == InsertedFrom(camelSpaced, acronymSpaced, 0)

\* An uppercase letter at j followed by a lowercase letter or digit.
CapitalizedAt(t, j) ==
    j + 1 <= Len(t) /\ IsUpper(t[j]) /\ IsLowerOrDigit(t[j + 1])

\* C7 as stated: the second replacement puts a boundary in front of an
\* uppercase letter followed by a lowercase letter or digit exactly when two
\* or more uppercase letters immediately precede it.
C7_Original ==
    (Done /\ op \in DelimiterOps /\ IsText) =>
        \A j \in 1..Len(camelSpaced) :
            CapitalizedAt(camelSpaced, j) =>
                (j \in AcronymCuts <=>
                    (j >= 3 /\ IsUpper(camelSpaced[j - 1])
                            /\ IsUpper(camelSpaced[j - 2])))

\* C7 as amended: the boundary is put exactly when at least one uppercase
\* letter immediately precedes, and the second replacement puts no boundary
\* anywhere else.
C7_AcronymRule ==
    (Done /\ op \in DelimiterOps /\ IsText) =>
        /\ \A j \in 1..Len(camelSpaced) :
              CapitalizedAt(camelSpaced, j) =>
                  (j \in AcronymCuts <=> (j >= 2 /\ IsUpper(camelSpaced[j - 1])))
        /\ \A j \in AcronymCuts : CapitalizedAt(camelSpaced, j)
        /\ Len(acronymSpaced) = Len(camelSpaced) + Cardinality(AcronymCuts)

C7_Witness ==
    /\ Done /\ op = "toKebabCase"
    /\ camelSpaced = <<"B", "B", "a">>
    /\ acronymSpaced = <<"B", " ", "B", "a">>
    /\ result = <<"b", "-", "b", "a">>

------------------------------------------------------------------------------
\* C8: in dotCase and the delimiter-aware toKebabCase a lowercase letter or
\* digit immediately followed by an uppercase letter end up in different
\* words, the separator standing between their lowercased images, and no
\* word of the output keeps an uppercase letter.
C8_CamelBoundarySplits ==
    (Done /\ op \in DelimiterOps /\ IsText) =>
        /\ status = "returned"
        /\ \A k \in 1..Len(result) : ~IsUpper(result[k])
        /\ \A i \in 1..Len(input.chars) :
              CamelBoundaryAt(input.chars, i) =>
                  LET r == AlnumRank(input.chars, i)
                      d == DeleteSep(result, SepOf(op))
                  IN  /\ SepAfter(result, SepOf(op), r)
                      /\ r + 1 <= Len(d)
                      /\ d[r] = input.chars[i]
                      /\ d[r + 1] = UpperToLower[input.chars[i + 1]]

C8_Witness ==
    /\ Done /\ op = "toKebabCase"
    /\ input.chars = <<"_", "1", "B", "B">>
    /\ result = <<"1", "-", "b", "b">>

------------------------------------------------------------------------------
\* C9: dotCase and the delimiter-aware toKebabCase differ only in the
\* separator: each result is the other's with the separator exchanged.
C9_SameTokenization ==
    (Done /\ IsText) =>
        /\ op = "dotCase" =>
              /\ toKebabCase(input).value = Subst(result, ".", "-")
              /\ result = Subst(toKebabCase(input).value, "-", ".")
              /\ words = toKebabCase(input).words
        /\ op = "toKebabCase" =>
              /\ dotCase(input).value = Subst(result, "-", ".")
              /\ result = Subst(dotCase(input).value, ".", "-")
              /\ words = dotCase(input).words

C9_Witness ==
    /\ Done /\ op = "dotCase"
    /\ input.chars = <<"B", "B", "a", "-">>
    /\ result = <<"b", ".", "b", "a">>
    /\ toKebabCase(input).value = <<"b", "-", "b", "a">>

------------------------------------------------------------------------------
(* C10: the shape of the output *)

\* Empty, or non-empty words of [a-z0-9] joined by single separators.
WellFormed(d, sep) ==
    \/ d = <<>>
    \/ /\ d[1] # sep
       /\ d[Len(d)] # sep
       /\ \A k \in 1..(Len(d) - 1) : ~(d[k] = sep /\ d[k + 1] = sep)
       /\ \A k \in 1..Len(d) : d[k] = sep \/ IsLowerOrDigit(d[k])

\* The characters of s in [a-zA-Z0-9], lowercased, in order.
LoweredAlnumOf(s) == ToLowerCase(AlnumOf(s))

\* C10 as stated: the output of dotCase and of both toKebabCase operations is
\* well formed, and without its separators it is the lowercased alphanumeric
\* characters of the input, in order.
C10_Original ==
    (Done /\ IsText /\ op \in DelimiterOps \cup {"toKebabCaseSimple"}) =>
        /\ status = "returned"
        /\ WellFormed(result, SepOf(op))
        /\ DeleteSep(result, SepOf(op)) = LoweredAlnumOf(input.chars)

\* C10 as amended: as stated for dotCase and the delimiter-aware toKebabCase;
\* the output of the simplified toKebabCase without its separators is the
\* alphanumeric characters of the lowercased input.
C10_WellFormedOutput ==
    (Done /\ IsText /\ op \in DelimiterOps \cup {"toKebabCaseSimple"}) =>
        /\ status = "returned"
        /\ WellFormed(result, SepOf(op))
        /\ op \in DelimiterOps =>
              DeleteSep(result, SepOf(op)) = LoweredAlnumOf(input.chars)
        /\ op = "toKebabCaseSimple" =>
              DeleteSep(result, SepOf(op)) = AlnumOf(ToLowerCase(input.chars))

C10_Witness ==
    /\ Done /\ op = "toKebabCaseSimple"
    /\ input.chars = <<" ", "B", Kelvin, "_">>
    /\ result = <<"b", "k">>

==============================================================================
